---------------------------- MODULE Spec2Model ----------------------------
(***************************************************************************)
(* A model of the date extraction, scoring and evaluation loop of          *)
(* src/v2.py.                                                              *)
(*                                                                         *)
(* A text is a sequence of symbols.  A symbol is one character, written as *)
(* a one-character string, or one English month name, which the regular    *)
(* expressions of extract_date_from_response match as one alternative of   *)
(* an alternation.  Python's None is the value None below; the empty       *)
(* string is the empty sequence.                                           *)
(***************************************************************************)
EXTENDS Integers, Sequences, FiniteSets, TLC

VARIABLES
    pc,              \* position of the running function
    response,        \* the text handed to extract_date_from_response
    extracted_date,  \* its result, also the first argument of the scoring
    ground_truth_date, \* the second argument of calculate_accuracy_score
    score,           \* the pair calculate_accuracy_score returns
    ymd,             \* the (year, month, day) triple of the round trip
    selected_facts,  \* test_model_for_hallucinations: the sampled facts
    fact_idx,        \* index of the fact the for loop is at
    results,         \* the list of TestResult built so far
    the_fact,        \* generate_question_from_fact: its argument fact
    the_question,    \* generate_question_from_fact: the question returned
    output,          \* main: what print_summary prints and json.dump writes
    n_trials,        \* test_event_n_times: its argument n
    trial_idx,       \* test_event_n_times: the trials made so far
    correct_count,   \* test_event_n_times: the local correct_count
    accuracy,        \* test_event_n_times: the value returned
    error            \* the exception a call ended in, "" when none

\* the variables of generate_question_from_fact, main and test_event_n_times
auxVars == <<the_fact, the_question, output, n_trials, trial_idx,
             correct_count, accuracy, error>>

vars == <<pc, response, extracted_date, ground_truth_date, score, ymd,
          selected_facts, fact_idx, results, auxVars>>

None == <<"None">>

\* a local variable of a function: not assigned yet, or holding a value
Unbound == [bound |-> FALSE, value |-> 0]

Bound(v) == [bound |-> TRUE, value |-> v]

\* the variables of the functions that are not running
InitAux ==
    /\ the_fact = [event |-> <<>>, date |-> None]
    /\ the_question = [template |-> "", event |-> <<>>]
    /\ output = <<>>
    /\ n_trials = 0
    /\ trial_idx = 0
    /\ correct_count = Unbound
    /\ accuracy = <<0, 1>>
    /\ error = ""

-----------------------------------------------------------------------------
(* Bounds of the model *)

MaxTokens == 3
MaxYearDiff == 12
YearSpan == 8
MaxFacts == 3
MaxPhrases == 2
MaxTrials == 3

-----------------------------------------------------------------------------
(* Characters and strings *)

Digit == {"0", "1", "2", "3", "4", "5", "6", "7", "8", "9"}

MonthWord == {"January", "February", "March", "April", "May", "June", "July",
              "August", "September", "October", "November", "December",
              "january", "february", "march", "april", "may", "june", "july",
              "august", "september", "october", "november", "december",
              "JULY"}

\* str.lower() on a word of the model (a month name, a word of an event)
lower(w) ==
    CASE w = "January" -> "january" [] w = "February" -> "february"
      [] w = "March" -> "march" [] w = "April" -> "april"
      [] w = "May" -> "may" [] w = "June" -> "june"
      [] w = "July" -> "july" [] w = "JULY" -> "july"
      [] w = "August" -> "august" [] w = "September" -> "september"
      [] w = "October" -> "october" [] w = "November" -> "november"
      [] w = "December" -> "december"
      [] w = "Apollo" -> "apollo" [] w = "Titanic" -> "titanic"
      [] w = "Kennedy" -> "kennedy" [] w = "Treaty" -> "treaty"
      [] w = "Berlin" -> "berlin" [] w = "Wall" -> "wall"
      [] w = "World" -> "world" [] w = "War" -> "war" [] w = "II" -> "ii"
      [] w = "iPhone" -> "iphone" [] w = "Assassinated" -> "assassinated"
      [] w = "The" -> "the"
      [] OTHER -> w

month_names ==
    [w \in {"january", "february", "march", "april", "may", "june", "july",
            "august", "september", "october", "november", "december"} |->
        CASE w = "january" -> 1 [] w = "february" -> 2 [] w = "march" -> 3
          [] w = "april" -> 4 [] w = "may" -> 5 [] w = "june" -> 6
          [] w = "july" -> 7 [] w = "august" -> 8 [] w = "september" -> 9
          [] w = "october" -> 10 [] w = "november" -> 11 [] w = "december" -> 12]

\* \s of the regular expressions
Whitespace == {" "}

\* the characters that are not \w: a \b lies between a \w and a non-\w
NonWord == {" ", "-", "/", ",", ".", ""}

\* the character at position i, "" outside the text
CharAt(t, i) == IF i \in 1..Len(t) THEN t[i] ELSE ""

IsWordChar(c) == c \notin NonWord

\* \b at the gap before position i
WordBoundary(t, i) == IsWordChar(CharAt(t, i - 1)) # IsWordChar(CharAt(t, i))

\* \d{n} at position i
DigitsAt(t, i, n) == \A k \in i..(i + n - 1) : CharAt(t, k) \in Digit

\* t[i .. i+n-1]
Slice(t, i, n) == SubSeq(t, i, i + n - 1)

\* \s* at position i, greedy: the position after the run of whitespace
RECURSIVE SkipSpace(_, _)
SkipSpace(t, i) ==
    IF CharAt(t, i) \in Whitespace THEN SkipSpace(t, i + 1) ELSE i

\* str.isdigit()
isdigit(s) == Len(s) > 0 /\ \A k \in 1..Len(s) : s[k] \in Digit

DigitValue(c) ==
    CASE c = "0" -> 0 [] c = "1" -> 1 [] c = "2" -> 2 [] c = "3" -> 3
      [] c = "4" -> 4 [] c = "5" -> 5 [] c = "6" -> 6 [] c = "7" -> 7
      [] c = "8" -> 8 [] c = "9" -> 9

DigitChar(n) ==
    CASE n = 0 -> "0" [] n = 1 -> "1" [] n = 2 -> "2" [] n = 3 -> "3"
      [] n = 4 -> "4" [] n = 5 -> "5" [] n = 6 -> "6" [] n = 7 -> "7"
      [] n = 8 -> "8" [] n = 9 -> "9"

\* int(s) of a string of digits
RECURSIVE int(_)
int(s) ==
    IF Len(s) = 0 THEN 0
    ELSE 10 * int(SubSeq(s, 1, Len(s) - 1)) + DigitValue(s[Len(s)])

\* the decimal digits of n, without padding
RECURSIVE Decimal(_)
Decimal(n) ==
    IF n < 10 THEN <<DigitChar(n)>>
    ELSE Decimal(n \div 10) \o <<DigitChar(n % 10)>>

\* f"{n:0wd}": zero-padded to at least w digits
RECURSIVE PadLeft(_, _)
PadLeft(s, w) == IF Len(s) >= w THEN s ELSE PadLeft(<<"0">> \o s, w)

Format0(n, w) == PadLeft(Decimal(n), w)

-----------------------------------------------------------------------------
(* The five regular expressions of extract_date_from_response, and re.findall *)

NoMatch == [ok |-> FALSE, match |-> <<>>, end |-> 0]

\* the lengths a pair of greedy \d{1,2} groups tries, longest first
GreedyLengths == <<<<2, 2>>, <<2, 1>>, <<1, 2>>, <<1, 1>>>>

\* \b(\d{4})-(\d{1,2})-(\d{1,2})\b at i with a month of ml and a day of dl digits
TryISO(t, i, ml, dl) ==
    /\ WordBoundary(t, i)
    /\ DigitsAt(t, i, 4)
    /\ CharAt(t, i + 4) = "-"
    /\ DigitsAt(t, i + 5, ml)
    /\ CharAt(t, i + 5 + ml) = "-"
    /\ DigitsAt(t, i + 6 + ml, dl)
    /\ WordBoundary(t, i + 6 + ml + dl)

ISOGroups(t, i, n) ==
    [ok |-> TRUE,
     match |-> <<Slice(t, i, 4), Slice(t, i + 5, n[1]), Slice(t, i + 6 + n[1], n[2])>>,
     end |-> i + 6 + n[1] + n[2]]

MatchISO(t, i) ==
    IF \E n \in 1..Len(GreedyLengths) :
          TryISO(t, i, GreedyLengths[n][1], GreedyLengths[n][2])
    THEN ISOGroups(t, i,
             GreedyLengths[CHOOSE n \in 1..Len(GreedyLengths) :
                 /\ TryISO(t, i, GreedyLengths[n][1], GreedyLengths[n][2])
                 /\ \A o \in 1..(n - 1) :
                       ~TryISO(t, i, GreedyLengths[o][1], GreedyLengths[o][2])])
    ELSE NoMatch

\* \b(\d{1,2})/(\d{1,2})/(\d{4})\b at i with a month of ml and a day of dl digits
TrySlash(t, i, ml, dl) ==
    /\ WordBoundary(t, i)
    /\ DigitsAt(t, i, ml)
    /\ CharAt(t, i + ml) = "/"
    /\ DigitsAt(t, i + ml + 1, dl)
    /\ CharAt(t, i + ml + 1 + dl) = "/"
    /\ DigitsAt(t, i + ml + dl + 2, 4)
    /\ WordBoundary(t, i + ml + dl + 6)

SlashGroups(t, i, n) ==
    [ok |-> TRUE,
     match |-> <<Slice(t, i, n[1]), Slice(t, i + n[1] + 1, n[2]),
                 Slice(t, i + n[1] + n[2] + 2, 4)>>,
     end |-> i + n[1] + n[2] + 6]

MatchSlash(t, i) ==
    IF \E n \in 1..Len(GreedyLengths) :
          TrySlash(t, i, GreedyLengths[n][1], GreedyLengths[n][2])
    THEN SlashGroups(t, i,
             GreedyLengths[CHOOSE n \in 1..Len(GreedyLengths) :
                 /\ TrySlash(t, i, GreedyLengths[n][1], GreedyLengths[n][2])
                 /\ \A o \in 1..(n - 1) :
                       ~TrySlash(t, i, GreedyLengths[o][1], GreedyLengths[o][2])])
    ELSE NoMatch

\* the position after an optional comma at k
AfterComma(t, k) == IF CharAt(t, k) = "," THEN k + 1 ELSE k

\* \s+(\d{4})\b from position c: the position of the year, or 0
YearAfterSpace(t, c) ==
    IF /\ CharAt(t, c) \in Whitespace
       /\ DigitsAt(t, SkipSpace(t, c), 4)
       /\ WordBoundary(t, SkipSpace(t, c) + 4)
    THEN SkipSpace(t, c) ELSE 0

\* \b(January|...|December)\s+(\d{1,2}),?\s+(\d{4})\b with re.IGNORECASE:
\* the month name stands at i, the day of dl digits at j
MonthFirstFrom(t, i, j, dl) ==
    IF /\ dl > 0
       /\ YearAfterSpace(t, AfterComma(t, j + dl)) > 0
    THEN [ok |-> TRUE,
          match |-> <<Slice(t, i, 1), Slice(t, j, dl),
                      Slice(t, YearAfterSpace(t, AfterComma(t, j + dl)), 4)>>,
          end |-> YearAfterSpace(t, AfterComma(t, j + dl)) + 4]
    ELSE NoMatch

\* the greedy \d{1,2} at j that lets the rest of the pattern match, or 0
MonthFirstDayLength(t, j) ==
    IF DigitsAt(t, j, 2) /\ YearAfterSpace(t, AfterComma(t, j + 2)) > 0 THEN 2
    ELSE IF DigitsAt(t, j, 1) /\ YearAfterSpace(t, AfterComma(t, j + 1)) > 0 THEN 1
    ELSE 0

MatchMonthFirst(t, i) ==
    IF /\ WordBoundary(t, i)
       /\ CharAt(t, i) \in MonthWord
       /\ CharAt(t, i + 1) \in Whitespace
    THEN MonthFirstFrom(t, i, SkipSpace(t, i + 1),
                        MonthFirstDayLength(t, SkipSpace(t, i + 1)))
    ELSE NoMatch

\* \s+(January|...|December) from position c: the position of the name, or 0
MonthAfterSpace(t, c) ==
    IF CharAt(t, c) \in Whitespace /\ CharAt(t, SkipSpace(t, c)) \in MonthWord
    THEN SkipSpace(t, c) ELSE 0

\* \b(\d{1,2})\s+(January|...|December)\s+(\d{4})\b with re.IGNORECASE:
\* the day of dl digits stands at i, the month name at j
DayFirstFrom(t, i, dl, j) ==
    IF dl > 0 /\ YearAfterSpace(t, j + 1) > 0
    THEN [ok |-> TRUE,
          match |-> <<Slice(t, i, dl), Slice(t, j, 1),
                      Slice(t, YearAfterSpace(t, j + 1), 4)>>,
          end |-> YearAfterSpace(t, j + 1) + 4]
    ELSE NoMatch

\* the greedy \d{1,2} at i that lets the rest of the pattern match, or 0
DayFirstDayLength(t, i) ==
    IF /\ DigitsAt(t, i, 2) /\ MonthAfterSpace(t, i + 2) > 0
       /\ YearAfterSpace(t, MonthAfterSpace(t, i + 2) + 1) > 0 THEN 2
    ELSE IF /\ DigitsAt(t, i, 1) /\ MonthAfterSpace(t, i + 1) > 0
            /\ YearAfterSpace(t, MonthAfterSpace(t, i + 1) + 1) > 0 THEN 1
    ELSE 0

MatchDayFirst(t, i) ==
    IF WordBoundary(t, i)
    THEN DayFirstFrom(t, i, DayFirstDayLength(t, i),
                      MonthAfterSpace(t, i + DayFirstDayLength(t, i)))
    ELSE NoMatch

\* \b(\d{4})\b: one group, so re.findall yields the group's string itself
MatchYear(t, i) ==
    IF WordBoundary(t, i) /\ DigitsAt(t, i, 4) /\ WordBoundary(t, i + 4)
    THEN [ok |-> TRUE, match |-> Slice(t, i, 4), end |-> i + 4]
    ELSE NoMatch

\* the list `patterns`, highest precedence first
patterns == <<"iso", "slash", "month_first", "day_first", "year">>

MatchAt(p, t, i) ==
    CASE p = "iso" -> MatchISO(t, i)
      [] p = "slash" -> MatchSlash(t, i)
      [] p = "month_first" -> MatchMonthFirst(t, i)
      [] p = "day_first" -> MatchDayFirst(t, i)
      [] p = "year" -> MatchYear(t, i)

\* re.findall(pattern, t): the non-overlapping matches, left to right
RECURSIVE FindFrom(_, _, _)
FindFrom(p, t, i) ==
    IF i > Len(t) THEN <<>>
    ELSE IF MatchAt(p, t, i).ok
         THEN <<MatchAt(p, t, i).match>> \o FindFrom(p, t, MatchAt(p, t, i).end)
         ELSE FindFrom(p, t, i + 1)

findall(p, t) == FindFrom(p, t, 1)

-----------------------------------------------------------------------------
(* extract_date_from_response *)

\* ToTriple without the test len(match[0]) == 4: every numeric match is read
\* month first
ToTriple_AlwaysMonthFirst(match) ==
    IF isdigit(match[1]) /\ isdigit(match[2]) /\ isdigit(match[3])
    THEN [year |-> int(match[3]), month |-> int(match[1]), day |-> int(match[2])]
    ELSE IF lower(match[1][1]) \in DOMAIN month_names
         THEN [year |-> int(match[3]), month |-> month_names[lower(match[1][1])],
               day |-> int(match[2])]
         ELSE [year |-> int(match[3]), month |-> month_names[lower(match[2][1])],
               day |-> int(match[1])]

\* lines 258-271: the captured groups as the numbers (year, month, day)
ToTriple(match) ==
    IF isdigit(match[1]) /\ isdigit(match[2]) /\ isdigit(match[3])
    THEN IF Len(match[1]) = 4
         THEN [year |-> int(match[1]), month |-> int(match[2]),
               day |-> int(match[3])]
         ELSE [year |-> int(match[3]), month |-> int(match[1]),
               day |-> int(match[2])]
    ELSE IF lower(match[1][1]) \in DOMAIN month_names
         THEN [year |-> int(match[3]), month |-> month_names[lower(match[1][1])],
               day |-> int(match[2])]
         ELSE [year |-> int(match[3]), month |-> month_names[lower(match[2][1])],
               day |-> int(match[1])]

is_leap(year) == year % 4 = 0 /\ (year % 100 # 0 \/ year % 400 = 0)

days_in_month(year, month) ==
    IF month = 2 THEN (IF is_leap(year) THEN 29 ELSE 28)
    ELSE IF month \in {4, 6, 9, 11} THEN 30 ELSE 31

\* a validation that checks the ranges 1..12 and 1..31 only
datetime_ok_RangesOnly(year, month, day) ==
    year \in 1..9999 /\ month \in 1..12 /\ day \in 1..31

\* datetime(year, month, day) does not raise ValueError
datetime_ok(year, month, day) ==
    /\ year \in 1..9999
    /\ month \in 1..12
    /\ day \in 1..days_in_month(year, month)

\* f"{year:04d}-{month:02d}-{day:02d}"
FormatDate(year, month, day) ==
    Format0(year, 4) \o <<"-">> \o Format0(month, 2) \o <<"-">> \o Format0(day, 2)

RECURSIVE ExtractFrom(_, _)

\* lines 273-278: the date is validated and formatted, or the loop goes on
FromTriple(text, k, d) ==
    IF datetime_ok(d.year, d.month, d.day)
    THEN FormatDate(d.year, d.month, d.day)
    ELSE ExtractFrom(text, k + 1)

\* lines 256-282: the first match of the k-th pattern
FromFirstMatch(text, k, match) ==
    IF Len(match) = 3 THEN FromTriple(text, k, ToTriple(match))
    ELSE IF Len(match) = 1 /\ isdigit(match[1]) /\ Len(match[1]) = 4
         THEN match[1] \o <<"-", "0", "1", "-", "0", "1">>
         ELSE ExtractFrom(text, k + 1)

\* lines 254-255: `if matches:`
FromMatches(text, k, matches) ==
    IF matches = <<>> THEN ExtractFrom(text, k + 1)
    ELSE FromFirstMatch(text, k, matches[1])

\* the loop `for pattern in patterns`, from the k-th pattern on
ExtractFrom(text, k) ==
    IF k > Len(patterns) THEN None
    ELSE FromMatches(text, k, findall(patterns[k], text))

extract_date_from_response(text) ==
    IF text = None \/ text = <<>> THEN None ELSE ExtractFrom(text, 1)

-----------------------------------------------------------------------------
(* The texts the extraction is run on: up to MaxTokens of the phrases below, *)
(* separated by one space, and the absent response                          *)

Tokens ==
    { <<"2", "0", "2", "1", "-", "0", "2", "-", "3", "0">>,
      <<"2", "0", "2", "1", "-", "0", "3", "-", "0", "1">>,
      <<"2", "0", "2", "0", "-", "2", "-", "2", "9">>,
      <<"0", "0", "0", "0", "-", "0", "1", "-", "0", "1">>,
      <<"1", "3", "/", "4", "5", "/", "2", "0", "2", "0">>,
      <<"1", "/", "2", "/", "2", "0", "2", "0">>,
      <<"July", " ", "2", "0", ",", " ", "1", "9", "6", "9">>,
      <<"3", "1", " ", "April", " ", "2", "0", "2", "1">>,
      <<"2", "0", " ", "JULY", " ", "1", "9", "6", "9">>,
      <<"1", "9", "6", "9">> }

RECURSIVE Join(_)
Join(toks) ==
    IF Len(toks) = 0 THEN <<>>
    ELSE IF Len(toks) = 1 THEN toks[1]
    ELSE toks[1] \o <<" ">> \o Join(Tail(toks))

TokenSeqs == UNION {[1..n -> Tokens] : n \in 0..MaxTokens}

Texts == {Join(ts) : ts \in TokenSeqs} \cup {None}

\* a value calculate_accuracy_score returns: the pair (is_correct,
\* confidence), the confidence in hundredths (0.7 is 70, 0.05 is 5)
Return(is_correct, confidence) ==
    [raised |-> "", is_correct |-> is_correct, confidence |-> confidence]

\* an exception that leaves calculate_accuracy_score
Raise(exception) == [raised |-> exception, is_correct |-> FALSE, confidence |-> 0]

NoScore == Return(FALSE, 0)

InitExtract ==
    /\ InitAux
    /\ pc = "extract"
    /\ response \in Texts
    /\ extracted_date = None
    /\ ground_truth_date = None
    /\ score = NoScore
    /\ ymd = <<0, 0, 0>>
    /\ selected_facts = <<>>
    /\ fact_idx = 0
    /\ results = <<>>

\* one call of extract_date_from_response(response)
Extract ==
    /\ pc = "extract"
    /\ extracted_date' = extract_date_from_response(response)
    /\ pc' = "extracted"
    /\ UNCHANGED <<auxVars, response, ground_truth_date, score, ymd, selected_facts,
                   fact_idx, results>>

NextExtract == Extract

SpecExtract == InitExtract /\ [][NextExtract]_vars

-----------------------------------------------------------------------------
(* What the properties of the extraction are stated with *)

LeapYear(y) == y % 400 = 0 \/ (y % 4 = 0 /\ y % 100 # 0)

MonthLength == <<31, 28, 31, 30, 31, 30, 31, 31, 30, 31, 30, 31>>

\* (y, m, d) is a day of the Gregorian calendar, year 1 or later
IsGregorianDate(y, m, d) ==
    /\ y >= 1
    /\ m >= 1 /\ m <= 12
    /\ d >= 1
    /\ d <= MonthLength[m] + (IF m = 2 /\ LeapYear(y) THEN 1 ELSE 0)

\* the triple a match of class p stands for: a bare year is January 1st
ClassTriple(p, match) ==
    IF p = "year" THEN [year |-> int(match), month |-> 1, day |-> 1]
    ELSE ToTriple(match)

\* the occurrences of class p in the text that are calendar dates
ValidOccurrences(p, text) ==
    LET ms == findall(p, text)
    IN  {n \in 1..Len(ms) :
            LET d == ClassTriple(p, ms[n])
            IN  IsGregorianDate(d.year, d.month, d.day)}

HasValid(p, text) == ValidOccurrences(p, text) # {}

\* the canonical YYYY-MM-DD string of the n-th occurrence of class p
Canonical(p, text, n) ==
    LET d == ClassTriple(p, findall(p, text)[n])
    IN  FormatDate(d.year, d.month, d.day)

CanonicalValid(p, text) ==
    {Canonical(p, text, n) : n \in ValidOccurrences(p, text)}

FirstValid(p, text) ==
    LET ok == ValidOccurrences(p, text)
    IN  Canonical(p, text, CHOOSE n \in ok : \A o \in ok : n <= o)

\* s is a zero-padded YYYY-MM-DD string
IsPaddedDateString(s) ==
    /\ Len(s) = 10
    /\ \A k \in {1, 2, 3, 4, 6, 7, 9, 10} : s[k] \in Digit
    /\ s[5] = "-" /\ s[8] = "-"

\* C1: within one of the four date classes, the occurrences are tried in
\* order: when a class holds a calendar-valid occurrence and no class of
\* higher precedence does, the result is the first valid occurrence of that
\* class, also when an earlier occurrence of the class is invalid.
C1_LaterOccurrenceTried ==
    pc = "extracted" /\ response # None =>
        \A k \in 1..4 :
            (/\ HasValid(patterns[k], response)
             /\ \A j \in 1..(k - 1) : ~HasValid(patterns[j], response))
            => extracted_date = FirstValid(patterns[k], response)

\* C2: a text with a bare 4-digit year and no match of the four date classes
\* extracts to January 1st of a year of the text.
C2_BareYearExtracted ==
    pc = "extracted" /\ response # None =>
        ((/\ \A k \in 1..4 : findall(patterns[k], response) = <<>>
          /\ findall("year", response) # <<>>)
         => \E n \in 1..Len(findall("year", response)) :
               extracted_date =
                   findall("year", response)[n] \o <<"-", "0", "1", "-", "0", "1">>)

\* C7: a text with a calendar-valid ISO date and a calendar-valid slash date
\* extracts to an ISO date of the text, whatever their order.
C7_IsoBeforeSlash ==
    pc = "extracted" /\ response # None =>
        (HasValid("iso", response) /\ HasValid("slash", response)
         => extracted_date \in CanonicalValid("iso", response))

\* C8: a result other than None is a zero-padded YYYY-MM-DD string of a real
\* Gregorian date.
C8_ResultIsCalendarDate ==
    pc = "extracted" /\ extracted_date # None =>
        /\ IsPaddedDateString(extracted_date)
        /\ IsGregorianDate(int(SubSeq(extracted_date, 1, 4)),
                           int(SubSeq(extracted_date, 6, 7)),
                           int(SubSeq(extracted_date, 9, 10)))

\* C8 witness: a date was extracted from a text whose ISO occurrences are all
\* calendar-invalid.
C8_Witness ==
    /\ pc = "extracted"
    /\ extracted_date # None
    /\ response # None
    /\ findall("iso", response) # <<>>
    /\ ~HasValid("iso", response)

\* C9: when the highest class that matches has no calendar-valid occurrence,
\* the result is a valid occurrence of the highest lower class that has one,
\* the bare-year class included.
C9_FallsThroughToLowerClass ==
    pc = "extracted" /\ response # None =>
        \A k \in 1..4 : \A l \in (k + 1)..5 :
            (/\ findall(patterns[k], response) # <<>>
             /\ \A j \in 1..(l - 1) : ~HasValid(patterns[j], response)
             /\ HasValid(patterns[l], response))
            => extracted_date \in CanonicalValid(patterns[l], response)

-----------------------------------------------------------------------------
(* The round trip: a calendar date is written as YYYY-MM-DD and extracted *)

RoundTripYears ==
    (1..YearSpan) \cup {100, 400, 1900, 2000, 9999} \cup (2020..(2020 + YearSpan))

\* every day of the years above, and the first and last day of the year and
\* the last days of February of every year from 1 to 9999
RoundTripDates ==
    {d \in (RoundTripYears \X (1..12) \X (1..31))
           \cup {<<y, md[1], md[2]>> : y \in 1..9999,
                    md \in {<<1, 1>>, <<2, 28>>, <<2, 29>>, <<12, 31>>}} :
        IsGregorianDate(d[1], d[2], d[3])}

\* the zero-padded decimal string of n, digit by digit
Digits2(n) == <<DigitChar(n \div 10), DigitChar(n % 10)>>

Digits4(n) == Digits2(n \div 100) \o Digits2(n % 100)

InitRoundTrip ==
    /\ InitAux
    /\ pc = "serialize"
    /\ ymd \in RoundTripDates
    /\ response = <<>>
    /\ extracted_date = None
    /\ ground_truth_date = None
    /\ score = NoScore
    /\ selected_facts = <<>>
    /\ fact_idx = 0
    /\ results = <<>>

\* the date is serialized and becomes the text to extract from
SerializeDate ==
    /\ pc = "serialize"
    /\ response' = Digits4(ymd[1]) \o <<"-">> \o Digits2(ymd[2]) \o <<"-">>
                       \o Digits2(ymd[3])
    /\ pc' = "extract"
    /\ UNCHANGED <<auxVars, extracted_date, ground_truth_date, score, ymd,
                   selected_facts, fact_idx, results>>

NextRoundTrip == SerializeDate \/ Extract

SpecRoundTrip == InitRoundTrip /\ [][NextRoundTrip]_vars

\* C10: extracting from the zero-padded YYYY-MM-DD string of a real
\* Gregorian date with year 1 to 9999 returns that string, that is the same
\* (year, month, day).
C10_RoundTrip ==
    pc = "extracted" =>
        /\ extracted_date = response
        /\ IsPaddedDateString(extracted_date)
        /\ <<int(SubSeq(extracted_date, 1, 4)), int(SubSeq(extracted_date, 6, 7)),
             int(SubSeq(extracted_date, 9, 10))>> = ymd

\* C10 witness: the leap day of a century year made the round trip.
C10_Witness ==
    pc = "extracted" /\ ymd = <<2000, 2, 29>> /\ extracted_date = response

-----------------------------------------------------------------------------
(* calculate_accuracy_score *)

\* a month or day field of strptime: one or two digits, 1..hi
StrptimeField(f, hi) == Len(f) \in 1..2 /\ isdigit(f) /\ int(f) \in 1..hi

\* the string s with its second hyphen at position dash2
StrptimeAt(s, dash2) ==
    IF /\ DigitsAt(s, 1, 4)
       /\ CharAt(s, 5) = "-"
       /\ CharAt(s, dash2) = "-"
       /\ StrptimeField(SubSeq(s, 6, dash2 - 1), 12)
       /\ StrptimeField(SubSeq(s, dash2 + 1, Len(s)), 31)
       /\ datetime_ok(int(SubSeq(s, 1, 4)), int(SubSeq(s, 6, dash2 - 1)),
                      int(SubSeq(s, dash2 + 1, Len(s))))
    THEN [error |-> "", year |-> int(SubSeq(s, 1, 4)),
          month |-> int(SubSeq(s, 6, dash2 - 1)),
          day |-> int(SubSeq(s, dash2 + 1, Len(s)))]
    ELSE [error |-> "ValueError"]

\* datetime.strptime(s, "%Y-%m-%d"): four digits, a month 1..12 and a day
\* 1..31 of one or two digits, nothing else, and a date of the calendar.
\* Anything else is a ValueError; an argument that is no string a TypeError.
strptime(s) ==
    IF s = None THEN [error |-> "TypeError"]
    ELSE StrptimeAt(s, IF CharAt(s, 7) = "-" THEN 7 ELSE 8)

\* `not s`: None and the empty string are falsy
falsy(s) == s = None \/ s = <<>>

abs(n) == IF n < 0 THEN -n ELSE n

\* the weights moved from the year to the month and the day
YearMatchConfidence_MonthWeighted(extracted, ground_truth) ==
    LET year_score == 50
        month_score == IF extracted.month = ground_truth.month THEN 30 ELSE 0
        day_score == IF extracted.day = ground_truth.day THEN 20 ELSE 0
    IN  year_score + month_score + day_score

\* the day bonus granted only when the month matches too
YearMatchConfidence_NestedBonus(extracted, ground_truth) ==
    IF extracted.month = ground_truth.month
    THEN 70 + 20 + (IF extracted.day = ground_truth.day THEN 10 ELSE 0)
    ELSE 70

\* lines 313-324: the year is correct
YearMatchConfidence(extracted, ground_truth) ==
    LET year_score == 70
        month_score == IF extracted.month = ground_truth.month THEN 20 ELSE 0
        day_score == IF extracted.day = ground_truth.day THEN 10 ELSE 0
    IN  year_score + month_score + day_score

\* the steps with < for <=
YearMismatchConfidence_StrictSteps(year_diff) ==
    IF year_diff < 1 THEN 30
    ELSE IF year_diff < 5 THEN 10
    ELSE IF year_diff < 10 THEN 5
    ELSE 1

\* lines 326-337: the year is wrong
YearMismatchConfidence(year_diff) ==
    IF year_diff <= 1 THEN 30
    ELSE IF year_diff <= 5 THEN 10
    ELSE IF year_diff <= 10 THEN 5
    ELSE 1

\* lines 303-339: both strings are parsed
ScoreDates(extracted_str, ground_truth_str, extracted, ground_truth) ==
    Return(extracted.year = ground_truth.year,
           IF extracted_str = ground_truth_str THEN 100
           ELSE IF extracted.year = ground_truth.year
                THEN YearMatchConfidence(extracted, ground_truth)
                ELSE YearMismatchConfidence(abs(extracted.year - ground_truth.year)))

\* the try block without its except ValueError
ScoreParsed_NoExcept(extracted_str, ground_truth_str) ==
    IF strptime(extracted_str).error # "" THEN Raise(strptime(extracted_str).error)
    ELSE IF strptime(ground_truth_str).error # ""
         THEN Raise(strptime(ground_truth_str).error)
    ELSE ScoreDates(extracted_str, ground_truth_str, strptime(extracted_str),
                    strptime(ground_truth_str))

\* lines 299-342: the try block and its except ValueError
ScoreParsed(extracted_str, ground_truth_str) ==
    IF strptime(extracted_str).error = "TypeError" THEN Raise("TypeError")
    ELSE IF strptime(extracted_str).error = "ValueError" THEN Return(FALSE, 0)
    ELSE IF strptime(ground_truth_str).error = "TypeError" THEN Raise("TypeError")
    ELSE IF strptime(ground_truth_str).error = "ValueError" THEN Return(FALSE, 0)
    ELSE ScoreDates(extracted_str, ground_truth_str, strptime(extracted_str),
                    strptime(ground_truth_str))

\* the guard of line 296 with `and` for `or`
calculate_accuracy_score_BothAbsent(extracted_str, ground_truth_str) ==
    IF falsy(extracted_str) /\ falsy(ground_truth_str) THEN Return(FALSE, 0)
    ELSE ScoreParsed(extracted_str, ground_truth_str)

calculate_accuracy_score(extracted_str, ground_truth_str) ==
    IF falsy(extracted_str) \/ falsy(ground_truth_str) THEN Return(FALSE, 0)
    ELSE ScoreParsed(extracted_str, ground_truth_str)

-----------------------------------------------------------------------------
(* The arguments the scoring is run on *)

ScoreYears == (1969 - MaxYearDiff)..(1969 + MaxYearDiff)

ScoreStrings ==
    {Digits4(y) \o <<"-">> \o Digits2(m) \o <<"-">> \o Digits2(d) :
        y \in ScoreYears, m \in {1, 7}, d \in {1, 20}}
    \cup {<<"1", "9", "6", "9", "-", "7", "-", "2", "0">>,
          <<"1", "9", "6", "9", "-", "7", "-", "1">>,
          <<"2", "0", "2", "1", "-", "0", "2", "-", "3", "0">>,
          <<"1", "9", "6", "9">>,
          <<>>,
          None}

InitScore ==
    /\ InitAux
    /\ pc = "score"
    /\ extracted_date \in ScoreStrings
    /\ ground_truth_date \in ScoreStrings
    /\ score = NoScore
    /\ response = <<>>
    /\ ymd = <<0, 0, 0>>
    /\ selected_facts = <<>>
    /\ fact_idx = 0
    /\ results = <<>>

\* one call of calculate_accuracy_score(extracted_date, ground_truth_date)
Score ==
    /\ pc = "score"
    /\ score' = calculate_accuracy_score(extracted_date, ground_truth_date)
    /\ pc' = "scored"
    /\ UNCHANGED <<auxVars, response, extracted_date, ground_truth_date, ymd,
                   selected_facts, fact_idx, results>>

NextScore == Score

SpecScore == InitScore /\ [][NextScore]_vars

\* s is a YYYY-M-D string, month and day of one or two digits, of a real date
IsDateString(s) ==
    /\ s # None
    /\ \E ml \in 1..2, dl \in 1..2 :
          /\ Len(s) = 6 + ml + dl
          /\ \A k \in 1..Len(s) :
                IF k = 5 \/ k = 6 + ml THEN s[k] = "-" ELSE s[k] \in Digit
          /\ IsGregorianDate(int(SubSeq(s, 1, 4)), int(SubSeq(s, 6, 5 + ml)),
                             int(SubSeq(s, 7 + ml, Len(s))))

YearOf(s) == int(SubSeq(s, 1, 4))

MonthOf(s) == int(SubSeq(s, 6, IF s[7] = "-" THEN 6 ELSE 7))

DayOf(s) == int(SubSeq(s, IF s[7] = "-" THEN 8 ELSE 9, Len(s)))

BothDates == IsDateString(extracted_date) /\ IsDateString(ground_truth_date)

\* C4: with equal years the result is (true, 0.70 + 0.20 if the months are
\* equal + 0.10 if the days are equal), each bonus independent of the other.
C4_YearMatchScore ==
    (pc = "scored" /\ BothDates
        /\ YearOf(extracted_date) = YearOf(ground_truth_date))
    => score = Return(TRUE,
                 70 + (IF MonthOf(extracted_date) = MonthOf(ground_truth_date)
                       THEN 20 ELSE 0)
                    + (IF DayOf(extracted_date) = DayOf(ground_truth_date)
                       THEN 10 ELSE 0))

\* C4 witness: same year and day, another month, scored 0.80.
C4_Witness ==
    /\ pc = "scored" /\ BothDates
    /\ YearOf(extracted_date) = YearOf(ground_truth_date)
    /\ MonthOf(extracted_date) # MonthOf(ground_truth_date)
    /\ DayOf(extracted_date) = DayOf(ground_truth_date)
    /\ score = Return(TRUE, 80)

\* C5: with different years the result is (false, c), c fixed by the year
\* distance d alone: 0.30 for d = 1, 0.10 for 2..5, 0.05 for 6..10, 0.01 above.
C5_YearMismatchScore ==
    (pc = "scored" /\ BothDates
        /\ YearOf(extracted_date) # YearOf(ground_truth_date))
    => LET d == abs(YearOf(extracted_date) - YearOf(ground_truth_date))
       IN  score = Return(FALSE,
                      CASE d = 1 -> 30
                        [] d \in 2..5 -> 10
                        [] d \in 6..10 -> 5
                        [] OTHER -> 1)

\* C5 witness: years five apart, same month and day, scored 0.10.
C5_Witness ==
    /\ pc = "scored" /\ BothDates
    /\ abs(YearOf(extracted_date) - YearOf(ground_truth_date)) = 5
    /\ MonthOf(extracted_date) = MonthOf(ground_truth_date)
    /\ DayOf(extracted_date) = DayOf(ground_truth_date)
    /\ score = Return(FALSE, 10)

\* C6: an absent or empty extraction, or an absent ground truth, scores
\* (false, 0.0) whatever the other argument is.
C6_AbsentScoresZero ==
    (pc = "scored" /\ (falsy(extracted_date) \/ falsy(ground_truth_date)))
    => score = Return(FALSE, 0)

\* C6 witness: no extraction, scored against a real ground-truth date.
C6_Witness ==
    /\ pc = "scored"
    /\ extracted_date = None
    /\ IsDateString(ground_truth_date)
    /\ score = Return(FALSE, 0)

\* C11: whatever the two arguments are (absent, empty, unparseable, not a
\* calendar date, or dates), calculate_accuracy_score raises nothing and
\* returns a boolean with a confidence between 0 and 1 (0..100 hundredths).
C11_NeverRaisesInRange ==
    pc = "scored"
    => /\ score.raised = ""
       /\ score.is_correct \in BOOLEAN
       /\ score.confidence \in 0..100

\* C11 witness: a well-shaped string that is no calendar date, scored against
\* a real ground-truth date: strptime raises and the result is (false, 0.0).
C11_Witness ==
    /\ pc = "scored"
    /\ extracted_date = <<"2", "0", "2", "1", "-", "0", "2", "-", "3", "0">>
    /\ IsDateString(ground_truth_date)
    /\ strptime(extracted_date).error = "ValueError"
    /\ score = Return(FALSE, 0)

\* C15: for two date strings, the year is reported correct exactly when the
\* confidence is at least 0.70, and a wrong year scores at most 0.30.
C15_YearDecidesRank ==
    (pc = "scored" /\ BothDates)
    => /\ score.is_correct <=> score.confidence >= 70
       /\ ~score.is_correct => score.confidence <= 30

\* C15 witness: one year off with the right month and day scores 0.30, the
\* most a wrong year gets.
C15_Witness ==
    /\ pc = "scored" /\ BothDates
    /\ abs(YearOf(extracted_date) - YearOf(ground_truth_date)) = 1
    /\ MonthOf(extracted_date) = MonthOf(ground_truth_date)
    /\ DayOf(extracted_date) = DayOf(ground_truth_date)
    /\ score = Return(FALSE, 30)

-----------------------------------------------------------------------------
(* generate_question_from_fact: an event is a sequence of words, and        *)
(* `phrase in event_lower` holds when the words of the phrase stand in it   *)
(* one after the other                                                      *)

Contains(words, phrase) ==
    \E i \in 1..(Len(words) - Len(phrase) + 1) :
        SubSeq(words, i, i + Len(phrase) - 1) = phrase

Question(template, event) == [template |-> template, event |-> event]

generate_question_from_fact_TitanicFirst(fact) ==
    LET event_lower == [i \in 1..Len(fact.event) |-> lower(fact.event[i])]
        has(phrase) == Contains(event_lower, phrase)
    IN  IF has(<<"titanic">>)
        THEN Question("When did the Titanic sink?", <<>>)
        ELSE IF has(<<"assassinated">>)
        THEN Question("When was JFK assassinated?", <<>>)
        ELSE IF has(<<"moon", "landing">>) \/ has(<<"apollo">>)
        THEN Question("When did the first moon landing occur?", <<>>)
        ELSE IF has(<<"world", "war", "ii">>) \/ has(<<"germany's", "surrender">>)
        THEN Question("When did World War II end in Europe?", <<>>)
        ELSE IF has(<<"declaration", "of", "independence">>)
        THEN Question("When was the Declaration of Independence adopted?", <<>>)
        ELSE IF has(<<"berlin", "wall">>)
        THEN Question("When did the Berlin Wall fall?", <<>>)
        ELSE IF has(<<"wright", "brothers">>) \/ has(<<"first", "flight">>)
        THEN Question("When did the Wright brothers make their first powered flight?", <<>>)
        ELSE IF has(<<"hiroshima">>) \/ has(<<"atomic", "bomb">>)
        THEN Question("When was the atomic bomb dropped on Hiroshima?", <<>>)
        ELSE IF has(<<"great", "depression">>) \/ has(<<"stock", "market", "crash">>)
        THEN Question("When did the Great Depression begin?", <<>>)
        ELSE IF has(<<"iphone">>)
        THEN Question("When was the first iPhone released?", <<>>)
        ELSE Question("When did this event occur: {fact.event}?", fact.event)


generate_question_from_fact(fact) ==
    LET event_lower == [i \in 1..Len(fact.event) |-> lower(fact.event[i])]
        has(phrase) == Contains(event_lower, phrase)
    IN  IF has(<<"assassinated">>)
        THEN Question("When was JFK assassinated?", <<>>)
        ELSE IF has(<<"moon", "landing">>) \/ has(<<"apollo">>)
        THEN Question("When did the first moon landing occur?", <<>>)
        ELSE IF has(<<"world", "war", "ii">>) \/ has(<<"germany's", "surrender">>)
        THEN Question("When did World War II end in Europe?", <<>>)
        ELSE IF has(<<"titanic">>)
        THEN Question("When did the Titanic sink?", <<>>)
        ELSE IF has(<<"declaration", "of", "independence">>)
        THEN Question("When was the Declaration of Independence adopted?", <<>>)
        ELSE IF has(<<"berlin", "wall">>)
        THEN Question("When did the Berlin Wall fall?", <<>>)
        ELSE IF has(<<"wright", "brothers">>) \/ has(<<"first", "flight">>)
        THEN Question("When did the Wright brothers make their first powered flight?", <<>>)
        ELSE IF has(<<"hiroshima">>) \/ has(<<"atomic", "bomb">>)
        THEN Question("When was the atomic bomb dropped on Hiroshima?", <<>>)
        ELSE IF has(<<"great", "depression">>) \/ has(<<"stock", "market", "crash">>)
        THEN Question("When did the Great Depression begin?", <<>>)
        ELSE IF has(<<"iphone">>)
        THEN Question("When was the first iPhone released?", <<>>)
        ELSE Question("When did this event occur: {fact.event}?", fact.event)

-----------------------------------------------------------------------------
(* The facts generate_question_from_fact is run on *)

HistoricalFact(event, date) == [event |-> event, date |-> date]

\* the phrases the events are put together from: the keywords of the rules,
\* parts of them, capitalised spellings and words no rule looks for
EventPhrases ==
    { <<"assassinated">>, <<"Assassinated">>,
      <<"moon", "landing">>, <<"moon">>, <<"landing">>, <<"Apollo">>,
      <<"World", "War", "II">>, <<"world", "war">>, <<"ii">>,
      <<"germany's", "surrender">>,
      <<"Titanic">>, <<"titanic">>,
      <<"declaration", "of", "independence">>,
      <<"Berlin", "Wall">>, <<"wall">>,
      <<"wright", "brothers">>, <<"first", "flight">>, <<"first">>,
      <<"hiroshima">>, <<"atomic", "bomb">>,
      <<"great", "depression">>, <<"stock", "market", "crash">>,
      <<"stock", "market">>, <<"crash">>,
      <<"iPhone">>,
      <<"The">>, <<"Treaty", "signed">> }

RECURSIVE Words(_)
\* the words of the phrases ps, one phrase after the other
Words(ps) == IF Len(ps) = 0 THEN <<>> ELSE Head(ps) \o Words(Tail(ps))

\* the events of at most MaxPhrases phrases
Events ==
    {Words(ps) : ps \in UNION {[1..n -> EventPhrases] : n \in 0..MaxPhrases}}

InitQuestion ==
    /\ pc = "ask"
    /\ the_fact \in {HistoricalFact(e, <<"1", "9", "6", "9", "-", "0", "7", "-", "2", "0">>) :
                        e \in Events}
    /\ the_question = [template |-> "", event |-> <<>>]
    /\ output = <<>>
    /\ n_trials = 0
    /\ trial_idx = 0
    /\ correct_count = Unbound
    /\ accuracy = <<0, 1>>
    /\ error = ""
    /\ response = <<>>
    /\ extracted_date = None
    /\ ground_truth_date = None
    /\ score = NoScore
    /\ ymd = <<0, 0, 0>>
    /\ selected_facts = <<>>
    /\ fact_idx = 0
    /\ results = <<>>

\* one call of generate_question_from_fact(the_fact)
AskQuestion ==
    /\ pc = "ask"
    /\ the_question' = generate_question_from_fact(the_fact)
    /\ pc' = "asked"
    /\ UNCHANGED <<the_fact, output, n_trials, trial_idx, correct_count, accuracy,
                   error, response, extracted_date, ground_truth_date, score, ymd,
                   selected_facts, fact_idx, results>>

NextQuestion == AskQuestion

SpecQuestion == InitQuestion /\ [][NextQuestion]_vars

\* the rules in the order they are tried: the keyword phrases of a rule, any
\* one of which makes it match, and its question
QuestionRules ==
    << [keywords |-> {<<"assassinated">>},
        template |-> "When was JFK assassinated?"],
       [keywords |-> {<<"moon", "landing">>, <<"apollo">>},
        template |-> "When did the first moon landing occur?"],
       [keywords |-> {<<"world", "war", "ii">>, <<"germany's", "surrender">>},
        template |-> "When did World War II end in Europe?"],
       [keywords |-> {<<"titanic">>},
        template |-> "When did the Titanic sink?"],
       [keywords |-> {<<"declaration", "of", "independence">>},
        template |-> "When was the Declaration of Independence adopted?"],
       [keywords |-> {<<"berlin", "wall">>},
        template |-> "When did the Berlin Wall fall?"],
       [keywords |-> {<<"wright", "brothers">>, <<"first", "flight">>},
        template |-> "When did the Wright brothers make their first powered flight?"],
       [keywords |-> {<<"hiroshima">>, <<"atomic", "bomb">>},
        template |-> "When was the atomic bomb dropped on Hiroshima?"],
       [keywords |-> {<<"great", "depression">>, <<"stock", "market", "crash">>},
        template |-> "When did the Great Depression begin?"],
       [keywords |-> {<<"iphone">>},
        template |-> "When was the first iPhone released?"] >>

LowerCased(event) == [k \in 1..Len(event) |-> lower(event[k])]

\* the rules whose keywords occur in the lower-cased event
MatchingRules(event) ==
    {r \in 1..Len(QuestionRules) :
        \E phrase \in QuestionRules[r].keywords :
            Contains(LowerCased(event), phrase)}

FirstRule(rs) == CHOOSE r \in rs : \A q \in rs : r <= q

\* C12: the question is that of the first rule, in the fixed order, with a
\* keyword in the lower-cased event, whatever later rules match too; when no
\* rule matches it is the generic question with the event as it was given.
C12_FirstMatchWins ==
    pc = "asked"
    => IF MatchingRules(the_fact.event) = {}
       THEN the_question = Question("When did this event occur: {fact.event}?",
                                    the_fact.event)
       ELSE the_question =
                Question(QuestionRules[FirstRule(MatchingRules(the_fact.event))].template,
                         <<>>)

\* C12 witness: an event that names the Titanic and an assassination, in that
\* order, is asked the assassination question.
C12_Witness ==
    /\ pc = "asked"
    /\ the_fact.event = <<"Titanic">> \o <<"Assassinated">>
    /\ MatchingRules(the_fact.event) = {1, 4}
    /\ the_question = Question("When was JFK assassinated?", <<>>)

-----------------------------------------------------------------------------
(* test_model_for_hallucinations *)

Facts ==
    { HistoricalFact(<<"Apollo", "11", "moon", "landing">>,
                     <<"1", "9", "6", "9", "-", "0", "7", "-", "2", "0">>),
      HistoricalFact(<<"Kennedy", "assassinated", "aboard", "Titanic">>,
                     <<"1", "9", "6", "3", "-", "1", "1", "-", "2", "2">>),
      HistoricalFact(<<"Berlin", "Wall", "opened">>,
                     <<"1", "9", "8", "9", "-", "1", "1", "-", "0", "9">>),
      HistoricalFact(<<"Treaty", "signed">>,
                     <<"1", "9", "1", "9", "-", "0", "6", "-", "2", "8">>) }

\* random.sample(facts, min(num_tests, len(facts))): distinct facts, any order
Samples ==
    UNION {{f \in [1..n -> Facts] : \A i, j \in 1..n : i # j => f[i] # f[j]} :
              n \in 0..MaxFacts}

\* the texts the model answers with
ModelResponses ==
    { <<"July", " ", "2", "0", ",", " ", "1", "9", "6", "9">>,
      <<"1", "9", "6", "3", "-", "1", "1", "-", "2", "2">>,
      <<"1", "1", "/", "9", "/", "1", "9", "9", "0">>,
      <<"1", "9", "1", "9">>,
      <<>> }

\* what one call of query_ollama ends in: the "response" field of the
\* payload, None after a requests.exceptions.RequestException (no
\* connection, a non-2xx status), or an exception that is not caught there
\* (a payload without the key "response": KeyError)
QueryOutcomes ==
    {[kind |-> "response", text |-> t] : t \in ModelResponses}
    \cup {[kind |-> "RequestException", text |-> None],
          [kind |-> "KeyError", text |-> None]}

TestResult(fact, question, model_response, extracted, is_correct, confidence) ==
    [fact |-> fact, question |-> question, model_response |-> model_response,
     extracted_date |-> extracted, is_correct |-> is_correct,
     confidence_score |-> confidence]

InitHarness ==
    /\ InitAux
    /\ pc = "for"
    /\ selected_facts \in Samples
    /\ fact_idx = 1
    /\ results = <<>>
    /\ response = None
    /\ extracted_date = None
    /\ ground_truth_date = None
    /\ score = NoScore
    /\ ymd = <<0, 0, 0>>

\* lines 376-385: the TestResult of a fact, its question, the response and
\* the date extracted from it
ScoredResult(fact, question, model_response, extracted, sc) ==
    TestResult(fact, question, model_response, extracted, sc.is_correct,
               sc.confidence)

\* lines 357-385: the loop body once the model has answered
RunTest(fact, model_response, extracted) ==
    ScoredResult(fact, generate_question_from_fact(fact), model_response,
                 extracted, calculate_accuracy_score(extracted, fact.date))

\* one pass of the loop body with a response from the model
TestFactAnswered ==
    /\ pc = "for"
    /\ fact_idx <= Len(selected_facts)
    /\ \E o \in QueryOutcomes :
          /\ o.kind = "response"
          /\ results' = Append(results,
                            RunTest(selected_facts[fact_idx], o.text,
                                    extract_date_from_response(o.text)))
    /\ fact_idx' = fact_idx + 1
    /\ UNCHANGED <<auxVars, pc, response, extracted_date, ground_truth_date, score, ymd,
                   selected_facts>>

\* one pass of the loop body when query_ollama returns None: `continue`
TestFactNoResponse ==
    /\ pc = "for"
    /\ fact_idx <= Len(selected_facts)
    /\ \E o \in QueryOutcomes : o.kind = "RequestException" /\ o.text = None
    /\ fact_idx' = fact_idx + 1
    /\ UNCHANGED <<auxVars, pc, response, extracted_date, ground_truth_date, score, ymd,
                   selected_facts, results>>

\* query_ollama raises: the exception leaves test_model_for_hallucinations
TestFactQueryRaises ==
    /\ pc = "for"
    /\ fact_idx <= Len(selected_facts)
    /\ \E o \in QueryOutcomes : o.kind = "KeyError"
    /\ pc' = "raised"
    /\ UNCHANGED <<auxVars, response, extracted_date, ground_truth_date, score, ymd,
                   selected_facts, fact_idx, results>>

\* the loop is over: return results
ReturnResults ==
    /\ pc = "for"
    /\ fact_idx > Len(selected_facts)
    /\ pc' = "returned"
    /\ UNCHANGED <<auxVars, response, extracted_date, ground_truth_date, score, ymd,
                   selected_facts, fact_idx, results>>

RECURSIVE CorrectAnswers(_)
\* line 400: sum(1 for r in results if r.is_correct)
CorrectAnswers(rs) ==
    IF Len(rs) = 0 THEN 0
    ELSE (IF Head(rs).is_correct THEN 1 ELSE 0) + CorrectAnswers(Tail(rs))

RECURSIVE ConfidenceSum(_)
\* line 401: sum(r.confidence_score for r in results), in hundredths
ConfidenceSum(rs) ==
    IF Len(rs) = 0 THEN 0
    ELSE Head(rs).confidence_score + ConfidenceSum(Tail(rs))

\* lines 403-416: the summary printed for a list of results that is not
\* empty; the average confidence is kept as the sum and the number it is
\* divided by
Summary(rs) ==
    [title |-> "HALLUCINATION TEST SUMMARY",
     total_tests |-> Len(rs),
     correct_answers |-> CorrectAnswers(rs),
     confidence_sum |-> ConfidenceSum(rs),
     details |-> [k \in 1..Len(rs) |->
                    [is_correct |-> rs[k].is_correct,
                     event |-> rs[k].fact.event,
                     expected |-> rs[k].fact.date,
                     got |-> rs[k].extracted_date,
                     confidence |-> rs[k].confidence_score]]]

\* lines 393-416: what print_summary(results) prints
print_summary(rs) ==
    IF rs = <<>> THEN [title |-> "No results to summarize"]
    ELSE Summary(rs)

\* lines 441-453: the file main writes
SavedFile(rs) ==
    [file |-> "hallucination_test_results.json",
     records |-> [k \in 1..Len(rs) |->
                    [fact |-> rs[k].fact,
                     question |-> rs[k].question,
                     model_response |-> rs[k].model_response,
                     extracted_date |-> rs[k].extracted_date,
                     is_correct |-> rs[k].is_correct,
                     confidence_score |-> rs[k].confidence_score]]]

\* main, line 438: print_summary(results)
PrintSummary ==
    /\ pc = "returned"
    /\ output' = Append(output, print_summary(results))
    /\ pc' = "summarized"
    /\ UNCHANGED <<the_fact, the_question, n_trials, trial_idx, correct_count,
                   accuracy, error, response, extracted_date, ground_truth_date,
                   score, ymd, selected_facts, fact_idx, results>>

\* main, lines 441-455: the results are written to the file and main ends
SaveResults ==
    /\ pc = "summarized"
    /\ output' = Append(output, SavedFile(results))
    /\ pc' = "saved"
    /\ UNCHANGED <<the_fact, the_question, n_trials, trial_idx, correct_count,
                   accuracy, error, response, extracted_date, ground_truth_date,
                   score, ymd, selected_facts, fact_idx, results>>

NextHarness ==
    \/ TestFactAnswered
    \/ TestFactNoResponse
    \/ TestFactQueryRaises
    \/ ReturnResults
    \/ PrintSummary
    \/ SaveResults

SpecHarness == InitHarness /\ [][NextHarness]_vars

\* C3: a failed model query does not end the run and still leaves a record
\* for its fact, so a finished run holds one record per selected fact, in the
\* order the facts were processed.
C3_OneRecordPerFact ==
    pc = "returned" =>
        /\ Len(results) = Len(selected_facts)
        /\ \A i \in 1..Len(results) : results[i].fact = selected_facts[i]

\* what main prints and writes for a run that was given no fact to test
EmptyReport ==
    << [title |-> "No results to summarize"],
       [file |-> "hallucination_test_results.json", records |-> <<>>] >>

\* C13: when the query fails for every fact of a run that has facts, main
\* does not end as an ordinary run does: it ends in an error, or what it
\* reports differs from the report of a run without records.
C13_AllFailedRunSurfaced ==
    (pc = "saved" /\ selected_facts # <<>> /\ results = <<>>)
    => (error # "" \/ output # EmptyReport)

-----------------------------------------------------------------------------
(* temp_eval.py: test_event_n_times *)

RECURSIVE ExtractByClass(_, _)
\* the date of the first class, from class k on, with an occurrence that is
\* a calendar date: the first such occurrence of that class
ExtractByClass(text, k) ==
    IF k > Len(patterns) THEN None
    ELSE IF HasValid(patterns[k], text) THEN FirstValid(patterns[k], text)
    ELSE ExtractByClass(text, k + 1)

\* extract_date_from_response of the module v1 that temp_eval.py imports
v1_extract_date_from_response(text) ==
    IF text = None \/ text = <<>> THEN None ELSE ExtractByClass(text, 1)

\* an event that is a str, as row["event"] is: it has no key "date"
StrEvent(words) == [str |-> words]

\* event["date"] is defined
HasDate(event) == "date" \in DOMAIN event

\* the events test_event_n_times is called with
TrialEvents == Facts \cup {StrEvent(f.event) : f \in Facts}

InitTrials ==
    /\ pc = "trial"
    /\ the_fact \in TrialEvents
    /\ n_trials \in 0..MaxTrials
    /\ trial_idx = 0
    /\ correct_count = Unbound
    /\ accuracy = <<0, 1>>
    /\ error = ""
    /\ the_question = [template |-> "", event |-> <<>>]
    /\ output = <<>>
    /\ response = None
    /\ extracted_date = None
    /\ ground_truth_date = None
    /\ score = NoScore
    /\ ymd = <<0, 0, 0>>
    /\ selected_facts = <<>>
    /\ fact_idx = 0
    /\ results = <<>>

\* line 38: get_ollama_responses raises (no connection, a payload without
\* the key "response"); nothing catches it
TrialQueryRaises ==
    /\ pc = "trial"
    /\ trial_idx < n_trials
    /\ \E o \in QueryOutcomes :
          /\ o.kind # "response"
          /\ error' = o.kind
    /\ pc' = "raised"
    /\ UNCHANGED <<the_fact, the_question, output, n_trials, trial_idx,
                   correct_count, accuracy, response, extracted_date,
                   ground_truth_date, score, ymd, selected_facts, fact_idx, results>>

\* lines 38-39 with an event that is a str: event["date"] raises TypeError
TrialEventHasNoDate ==
    /\ pc = "trial"
    /\ trial_idx < n_trials
    /\ ~HasDate(the_fact)
    /\ \E o \in QueryOutcomes :
          /\ o.kind = "response"
          /\ response' = o.text
          /\ extracted_date' = v1_extract_date_from_response(o.text)
    /\ error' = "TypeError"
    /\ pc' = "raised"
    /\ UNCHANGED <<the_fact, the_question, output, n_trials, trial_idx,
                   correct_count, accuracy, ground_truth_date, score, ymd,
                   selected_facts, fact_idx, results>>

\* line 40, correct_count += 1: the local has to be bound to be read
IncrementCorrectCount ==
    IF correct_count.bound
    THEN /\ correct_count' = Bound(correct_count.value + 1)
         /\ trial_idx' = trial_idx + 1
         /\ UNCHANGED <<pc, error>>
    ELSE /\ error' = "UnboundLocalError"
         /\ pc' = "raised"
         /\ UNCHANGED <<correct_count, trial_idx>>

\* lines 38-40: a trial whose date is the date of the event
TrialCorrect ==
    /\ pc = "trial"
    /\ trial_idx < n_trials
    /\ HasDate(the_fact)
    /\ \E o \in QueryOutcomes :
          /\ o.kind = "response"
          /\ v1_extract_date_from_response(o.text) = the_fact.date
          /\ response' = o.text
          /\ extracted_date' = v1_extract_date_from_response(o.text)
    /\ IncrementCorrectCount
    /\ UNCHANGED <<the_fact, the_question, output, n_trials, accuracy,
                   ground_truth_date, score, ymd, selected_facts, fact_idx, results>>

\* lines 38-39: a trial whose date is not the date of the event
TrialWrong ==
    /\ pc = "trial"
    /\ trial_idx < n_trials
    /\ HasDate(the_fact)
    /\ \E o \in QueryOutcomes :
          /\ o.kind = "response"
          /\ v1_extract_date_from_response(o.text) # the_fact.date
          /\ response' = o.text
          /\ extracted_date' = v1_extract_date_from_response(o.text)
    /\ trial_idx' = trial_idx + 1
    /\ UNCHANGED <<pc, the_fact, the_question, output, n_trials, correct_count,
                   accuracy, error, ground_truth_date, score, ymd, selected_facts,
                   fact_idx, results>>

\* line 41, return correct_count / n: correct_count is read first, then the
\* division is made; the quotient is kept as <<numerator, denominator>>
ReturnAccuracy ==
    /\ pc = "trial"
    /\ trial_idx >= n_trials
    /\ IF ~correct_count.bound
       THEN /\ error' = "UnboundLocalError"
            /\ pc' = "raised"
            /\ UNCHANGED accuracy
       ELSE IF n_trials = 0
       THEN /\ error' = "ZeroDivisionError"
            /\ pc' = "raised"
            /\ UNCHANGED accuracy
       ELSE /\ accuracy' = <<correct_count.value, n_trials>>
            /\ pc' = "returned"
            /\ UNCHANGED error
    /\ UNCHANGED <<the_fact, the_question, output, n_trials, trial_idx,
                   correct_count, response, extracted_date, ground_truth_date,
                   score, ymd, selected_facts, fact_idx, results>>

NextTrials ==
    \/ TrialQueryRaises
    \/ TrialEventHasNoDate
    \/ TrialCorrect
    \/ TrialWrong
    \/ ReturnAccuracy

SpecTrials == InitTrials /\ [][NextTrials]_vars

\* C14: a call with an event that has a date and n of 1 or more, whose
\* queries all answer, does not end in an error: it returns a quotient with
\* denominator n and a numerator between 0 and n.
C14_ReturnsAccuracy ==
    (HasDate(the_fact) /\ n_trials >= 1)
    => /\ pc = "raised" => error \in {"RequestException", "KeyError"}
       /\ pc = "returned" => accuracy[2] = n_trials /\ accuracy[1] \in 0..n_trials

=============================================================================
